---------------------------- MODULE Spec2Model ----------------------------
(***************************************************************************)
(* The message router and FAQ resolution engine of src/server.py.          *)
(*                                                                         *)
(* A Python str is modelled as a sequence of characters, each character a  *)
(* one-element TLA+ string; a character outside letters, digits and a few  *)
(* punctuation marks is written by its code point ("U0932", "U000A").      *)
(* None and the empty string are both the empty sequence wherever the code *)
(* only tests truthiness; an optional answer is a sequence of length 0/1.  *)
(***************************************************************************)
EXTENDS Integers, Sequences, FiniteSets, TLC

\* ---- the state of the server ----
VARIABLES
    FAQ,            \* the knowledge base, loaded at startup
    DISEASE_DOCS,   \* the token index, built at startup
    pc,             \* per worker: "idle", the stage about to run, or "done"
    req,            \* per worker: the (text, lang) of the call as received
    text,           \* per worker: process_message's local text (stripped)
    lang,           \* per worker: process_message's local lang (resolved)
    trace,          \* per worker: the stages run so far, in order
    frame,          \* per worker: search_faq's locals when it returned
    result,         \* per worker: the dict process_message returned
    served          \* completed calls remembered for comparison (history)

vars == <<FAQ, DISEASE_DOCS, pc, req, text, lang, trace, frame, result, served>>

\* ---- bounds of the model ----
\* the most words a request text is made of
MaxWords == 3
\* the most completed requests the server remembers for comparison
MaxServed == 2

\* ------------------------------------------------------------------------
\* Characters and the str methods the code uses
\* ------------------------------------------------------------------------
LowerLetters ==
    <<"a","b","c","d","e","f","g","h","i","j","k","l","m",
      "n","o","p","q","r","s","t","u","v","w","x","y","z">>
UpperLetters ==
    <<"A","B","C","D","E","F","G","H","I","J","K","L","M",
      "N","O","P","Q","R","S","T","U","V","W","X","Y","Z">>
Range(s) == {s[i] : i \in DOMAIN s}
Digits == {"0","1","2","3","4","5","6","7","8","9"}
\* the characters of the model's strings that str.strip() removes
Whitespace == {" ", "U000A", "U0009"}
\* the non-ASCII characters of the model's strings that the regex \w matches
\* (letters; the Indic vowel signs and viramas are marks and do not match)
UNICODE_WORD_CHARS ==
    {"U05DC","U0905","U0906","U0907","U0909","U090F","U0910","U0911","U0914","U0915","U0916","U0917",
     "U0918","U091A","U091B","U091C","U091D","U091F","U0921","U0923","U0924","U0925","U0926",
     "U0927","U0928","U092A","U092B","U092C","U092D","U092E","U092F","U0930","U0932","U0935",
     "U0936","U0937","U0938","U0939","U0B85","U0B8E","U0B95","U0B9A","U0BA3","U0BA4","U0BA8",
     "U0BA9","U0BAA","U0BAE","U0BAF","U0BB1","U0BB2","U0C15","U0C1A","U0C24","U0C27","U0C28",
     "U0C2A","U0C2D","U0C2F","U0C30","U0C32","U0C35","U0C36","U0C38","U0C89","U0C97","U0C9F",
     "U0CA8","U0CAA","U0CAD","U0CB0","U0CB5","U0CB8","U0D15","U0D17","U0D23","U0D24","U0D27",
     "U0D28","U0D2C","U0D2E","U0D30","U0D31","U0D35","U0D36","U0D38"}
WordChars ==
    Range(LowerLetters) \cup Range(UpperLetters) \cup Digits \cup {"_"} \cup UNICODE_WORD_CHARS
IsWordChar(c) == c \in WordChars

\* the lower-case letter of each upper-case letter, and the reverse
ToLower == [c \in Range(UpperLetters) |-> LowerLetters[CHOOSE i \in 1..26 : UpperLetters[i] = c]]
ToUpper == [c \in Range(LowerLetters) |-> UpperLetters[CHOOSE i \in 1..26 : LowerLetters[i] = c]]
LowerChar(c) == IF c \in DOMAIN ToLower THEN ToLower[c] ELSE c
UpperChar(c) == IF c \in DOMAIN ToUpper THEN ToUpper[c] ELSE c
IsCased(c) == c \in DOMAIN ToLower \/ c \in DOMAIN ToUpper

\* str.lower()
Lower(s) == [i \in DOMAIN s |-> LowerChar(s[i])]

\* str.strip(): leading and trailing whitespace removed
Strip(s) ==
    LET keep == {i \in DOMAIN s : s[i] \notin Whitespace}
    IN  IF keep = {} THEN <<>>
        ELSE LET first == CHOOSE i \in keep : \A j \in keep : i <= j
                 last  == CHOOSE i \in keep : \A j \in keep : j <= i
             IN  [k \in 1..(last - first + 1) |-> s[first + k - 1]]

\* `sub in s`
Contains(sub, s) ==
    \E i \in 0..(Len(s) - Len(sub)) : \A j \in 1..Len(sub) : s[i + j] = sub[j]

\* s.startswith(prefix)
StartsWith(s, prefix) ==
    /\ Len(prefix) <= Len(s)
    /\ \A j \in 1..Len(prefix) : s[j] = prefix[j]

\* s.replace(old, new) for a single character old
ReplaceChar(s, old, new) == [i \in DOMAIN s |-> IF s[i] = old THEN new ELSE s[i]]

\* str.title(): a cased character is upper-cased after an uncased one (or at
\* the start) and lower-cased after a cased one
Title(s) ==
    [i \in DOMAIN s |->
        IF i > 1 /\ IsCased(s[i - 1]) THEN LowerChar(s[i]) ELSE UpperChar(s[i])]

\* sep.join(items)
RECURSIVE Join(_, _)
Join(sep, items) ==
    IF Len(items) = 0 THEN <<>>
    ELSE IF Len(items) = 1 THEN items[1]
    ELSE items[1] \o sep \o Join(sep, Tail(items))

\* dict.get(k, default) on a function
DictGet(d, k, default) == IF k \in DOMAIN d THEN d[k] ELSE default

\* ------------------------------------------------------------------------
\* The string tables of the source
\* ------------------------------------------------------------------------
\* ---- language codes ----

\* the code "en"  (src/server.py:128)
L_en ==
    <<"e","n">>

\* the code "hi"  (src/server.py:128)
L_hi ==
    <<"h","i">>

\* SUPPORTED_LANGS  (src/server.py:128)
SUPPORTED_LANGS == {L_en, L_hi}

\* STOP_WORDS  (src/server.py:40-46)
STOP_WORDS ==
    { <<"a">>,
      <<"a","n">>,
      <<"t","h","e">>,
      <<"i","s">>,
      <<"a","r","e">>,
      <<"a","m">>,
      <<"i">>,
      <<"y","o","u">>,
      <<"h","e">>,
      <<"s","h","e">>,
      <<"i","t">>,
      <<"w","e">>,
      <<"t","h","e","y">>,
      <<"o","f">>,
      <<"f","o","r">>,
      <<"t","o">>,
      <<"i","n">>,
      <<"o","n">>,
      <<"a","n","d">>,
      <<"o","r">>,
      <<"b","u","t">>,
      <<"w","i","t","h">>,
      <<"a","t">>,
      <<"f","r","o","m">>,
      <<"t","h","i","s">>,
      <<"t","h","a","t">>,
      <<"t","h","e","s","e">>,
      <<"t","h","o","s","e">>,
      <<"a","b","o","u","t">>,
      <<"w","h","a","t">>,
      <<"h","o","w">>,
      <<"w","h","e","n">>,
      <<"w","h","y">>,
      <<"d","o">>,
      <<"d","o","e","s">>,
      <<"d","i","d">>,
      <<"m","y">>,
      <<"y","o","u","r">>,
      <<"h","i","s">>,
      <<"h","e","r">>,
      <<"t","h","e","i","r">>,
      <<"o","u","r">>,
      <<"h","a","v","e">>,
      <<"h","a","s">>,
      <<"h","a","d">>,
      <<"m","e">>,
      <<"b","e">>,
      <<"b","e","e","n">>,
      <<"w","a","s">>,
      <<"w","e","r","e">> }

\* GREET_KEYWORDS  (src/server.py:130-133)
GREET_KEYWORDS ==
    (L_en :> << <<"h","i">>,
            <<"h","e","l","l","o">>,
            <<"h","e","y">>,
            <<"h","a","i">> >>)
    @@ (L_hi :> << <<"n","a","m","a","s","t","e">>,
            <<"n","a","m","a","s","k","a","r">>,
            <<"n","a","m","a","s","t","h","e">>,
            <<"U0928","U092E","U0938","U094D","U0924","U0947">>,
            <<"U0928","U092E","U0938","U094D","U0915","U093E","U0930">> >>)

\* GREET_MESSAGE  (src/server.py:135-149)
GREET_MESSAGE ==
    (L_en :> <<"U1F44B"," ","H","e","l","l","o","!"," ","I","'","m"," ","*","Z","i","v","a","*",","," ","y","o",
         "u","r"," ","w","h","a","t","s","a","p","p"," ","h","e","a","l","t","h"," ","a","s","s",
         "i","s","t","a","n","t",".","U000A","U000A">>)
    @@ (L_hi :> <<"U1F44B"," ","U0928","U092E","U0938","U094D","U0924","U0947","!"," ","U092E","U0948","U0902"," ",
         "*","M","e","d","X","p","e","r","t","*"," ","U0939","U0942","U0901",","," ","U0906",
         "U092A","U0915","U093E"," ","U0911","U092B","U093C","U0932","U093E","U0907","U0928"," ",
         "U0938","U094D","U0935","U093E","U0938","U094D","U0925","U094D","U092F"," ","U0938",
         "U0939","U093E","U092F","U0915","U0964","U000A","U000A","U0906","U092A"," ","U0910",
         "U0938","U0947"," ","U0938","U0935","U093E","U0932"," ","U092A","U0942","U091B"," ",
         "U0938","U0915","U0924","U0947"," ","U0939","U0948","U0902",":","U000A","U2022"," ",
         "U0921","U0947","U0902","U0917","U0942"," ","U0915","U0947"," ","U0932","U0915","U094D",
         "U0937","U0923","U000A","U2022"," ","U092E","U0932","U0947","U0930","U093F","U092F",
         "U093E"," ","U0938","U0947"," ","U092C","U091A","U093E","U0935"," ","U0915","U0948",
         "U0938","U0947"," ","U0915","U0930","U0947","U0902","U000A","U2022"," ","U0936","U093F",
         "U0936","U0941"," ","/"," ","U092C","U091A","U094D","U091A","U093E"," ","/"," ","U0935",
         "U092F","U0938","U094D","U0915"," ","/"," ","U0917","U0930","U094D","U092D","U0935",
         "U0924","U0940"," ","U0915","U0947"," ","U091F","U0940","U0915","U093E","U0915","U0930",
         "U0923"," ","U0915","U0940"," ","U0938","U0942","U091A","U0940","U000A","U000A","U0915",
         "U093F","U0938","U0940"," ","U092D","U093E","U0937","U093E"," ","U0915","U094B"," ",
         "U091A","U0941","U0928","U0928","U0947"," ","U0915","U0947"," ","U0932","U093F","U090F",
         " ","U0906","U092A"," ","U0910","U0938","U0947"," ","U0932","U093F","U0916"," ","U0938",
         "U0915","U0924","U0947"," ","U0939","U0948","U0902",":","U000A","U0060","l","a","n","g",
         ":","h","i"," ","U0921","U0947","U0902","U0917","U0942"," ","U0915","U0947"," ","U0932",
         "U0915","U094D","U0937","U0923","U0060","U000A","U000A","U0906","U092A","U093E","U0924",
         " ","U0938","U094D","U0925","U093F","U0924","U093F"," ","U092E","U0947","U0902"," ",
         "U0924","U0941","U0930","U0902","U0924"," ","U0921","U0949","U0915","U094D","U091F",
         "U0930"," ","U092F","U093E"," ","U0928","U091C","U093C","U0926","U0940","U0915","U0940",
         " ","U0905","U0938","U094D","U092A","U0924","U093E","U0932"," ","U0938","U0947"," ",
         "U0938","U0902","U092A","U0930","U094D","U0915"," ","U0915","U0930","U0947","U0902",
         "U0964">>)

\* FALLBACK_MESSAGE  (src/server.py:151-165)
FALLBACK_MESSAGE ==
    (L_en :> <<"I"," ","c","o","u","l","d","n","'","t"," ","f","i","n","d"," ","a","n"," "," ","a","n","s","w",
         "e","r"," ","f","o","r"," ","t","h","a","t",".","U000A","U000A","S","e","a","r","c","h",
         "i","n","g"," ","t","h","e"," ","w","e","b",".",".",".",".",".","U000A">>)
    @@ (L_hi :> <<"U092E","U0941","U091D","U0947"," ","U0907","U0938"," ","U092A","U094D","U0930","U0936","U094D",
         "U0928"," ","U0915","U093E"," ","U0911","U092B","U093C","U0932","U093E","U0907","U0928",
         " ","U0909","U0924","U094D","U0924","U0930"," ","U0928","U0939","U0940","U0902"," ",
         "U092E","U093F","U0932","U093E","U0964","U000A","U000A","U0906","U092A"," ","U0907",
         "U0928"," ","U0935","U093F","U0937","U092F","U094B","U0902"," ","U092A","U0930"," ",
         "U092A","U0942","U091B"," ","U0938","U0915","U0924","U0947"," ","U0939","U0948","U0902",
         ":","U000A","U2022"," ","U0921","U0947","U0902","U0917","U0942"," ","/"," ","U092E",
         "U0932","U0947","U0930","U093F","U092F","U093E"," ","/"," ","U091F","U0940","U092C",
         "U0940"," ","U0915","U0947"," ","U0932","U0915","U094D","U0937","U0923","U000A","U2022",
         " ","U092E","U0932","U0947","U0930","U093F","U092F","U093E"," ","/"," ","U091F","U093E",
         "U0907","U092B","U093C","U0949","U0907","U0921"," ","U0938","U0947"," ","U092C","U091A",
         "U093E","U0935"," ","U0915","U0948","U0938","U0947"," ","U0915","U0930","U0947","U0902",
         "U000A","U2022"," ","U0936","U093F","U0936","U0941"," ","/"," ","U092C","U091A","U094D",
         "U091A","U093E"," ","/"," ","U0935","U092F","U0938","U094D","U0915"," ","/"," ","U0917",
         "U0930","U094D","U092D","U0935","U0924","U0940"," ","U0915","U0947"," ","U091F","U0940",
         "U0915","U093E","U0915","U0930","U0923"," ","U0915","U0940"," ","U0938","U0942","U091A",
         "U0940","U000A","U000A","U091B","U093E","U0924","U0940"," ","U092E","U0947","U0902"," ",
         "U0926","U0930","U094D","U0926",","," ","U0924","U0947","U091C","U093C"," ","U0930",
         "U0915","U094D","U0924","U0938","U094D","U0930","U093E","U0935"," ","U092F","U093E"," ",
         "U0938","U093E","U0902","U0938"," ","U0932","U0947","U0928","U0947"," ","U092E","U0947",
         "U0902"," ","U0926","U093F","U0915","U094D","U0915","U0924"," ","U091C","U0948","U0938",
         "U0940"," ","U0906","U092A","U093E","U0924"," ","U0938","U094D","U0925","U093F","U0924",
         "U093F"," ","U092E","U0947","U0902"," ","U0915","U0943","U092A","U092F","U093E"," ",
         "U0924","U0941","U0930","U0902","U0924"," ","U0921","U0949","U0915","U094D","U091F",
         "U0930"," ","U092F","U093E"," ","U0905","U0938","U094D","U092A","U0924","U093E","U0932",
         " ","U0938","U0947"," ","U0938","U0902","U092A","U0930","U094D","U0915"," ","U0915",
         "U0930","U0947","U0902","U0964">>)

\* THANK_KEYWORDS  (src/server.py:306-309)
THANK_KEYWORDS ==
    (L_en :> << <<"t","h","a","n","k">>,
            <<"t","h","a","n","k","s">>,
            <<"t","h","a","n","k"," ","y","o","u">>,
            <<"t","h","x">>,
            <<"t","y">> >>)
    @@ (L_hi :> << <<"d","h","a","n","y","a","v","a","d">>,
            <<"U0927","U0928","U094D","U092F","U0935","U093E","U0926">>,
            <<"s","h","u","k","r","i","y","a">>,
            <<"U0936","U0941","U0915","U094D","U0930","U093F","U092F","U093E">> >>)

\* thank_reply  (src/server.py:313-316)
thank_reply ==
    (L_en :> <<"U1F60A"," ","Y","o","u","'","r","e"," ","w","e","l","c","o","m","e","!"," ","L","e","t"," ","m",
         "e"," ","k","n","o","w"," ","i","f"," ","y","o","u"," ","n","e","e","d"," ","m","o","r",
         "e"," ","h","e","a","l","t","h"," ","i","n","f","o","r","m","a","t","i","o","n",".">>)
    @@ (L_hi :> <<"U1F60A"," ","U0906","U092A","U0915","U093E"," ","U0938","U094D","U0935","U093E","U0917","U0924",
         " ","U0939","U0948","!"," ","U092F","U0926","U093F"," ","U0906","U092A","U0915","U094B",
         " ","U0914","U0930"," ","U0938","U094D","U0935","U093E","U0938","U094D","U0925","U094D",
         "U092F"," ","U091C","U093E","U0928","U0915","U093E","U0930","U0940"," ","U091A","U093E",
         "U0939","U093F","U090F",","," ","U0924","U094B"," ","U092C","U0924","U093E","U090F",
         "U0902","U0964">>)

\* English symptom keywords  (src/server.py:229)
SYMPTOM_WORDS_EN ==
    << <<"s","y","m","p","t","o","m">>,
       <<"s","y","m","p","t","o","m","s">>,
       <<"s","i","g","n","s">> >>

\* English prevention keywords  (src/server.py:231)
PREVENTION_WORDS_EN ==
    << <<"p","r","e","v","e","n","t">>,
       <<"p","r","e","v","e","n","t","i","o","n">>,
       <<"a","v","o","i","d">>,
       <<"p","r","o","t","e","c","t","i","o","n">> >>

\* English remedy keywords  (src/server.py:233)
REMEDY_WORDS_EN ==
    << <<"r","e","m","e","d","y">>,
       <<"r","e","m","e","d","i","e","s">>,
       <<"t","r","e","a","t">>,
       <<"t","r","e","a","t","m","e","n","t">>,
       <<"c","u","r","e">> >>

\* Hindi symptom keywords  (src/server.py:237)
SYMPTOM_WORDS_HI ==
    << <<"U0932","U0915","U094D","U0937","U0923">> >>

\* Hindi prevention keywords  (src/server.py:239)
PREVENTION_WORDS_HI ==
    << <<"U092C","U091A","U093E","U0935">>,
       <<"U0930","U094B","U0915","U0925","U093E","U092E">> >>

\* Hindi remedy keywords  (src/server.py:241)
REMEDY_WORDS_HI ==
    << <<"U0909","U092A","U091A","U093E","U0930">>,
       <<"U0907","U0932","U093E","U091C">> >>

\* vaccination keywords  (src/server.py:328-331)
VACCINATION_WORDS ==
    << <<"v","a","c","c","i","n","e">>,
       <<"v","a","c","c","i","n","a","t","i","o","n">>,
       <<"v","a","c","c","i","n","e"," ","s","c","h","e","d","u","l","e">>,
       <<"i","m","m","u","n","i","z","a","t","i","o","n">>,
       <<"U091F","U0940","U0915","U093E">>,
       <<"U091F","U0940","U0915","U093E","U0915","U0930","U0923">> >>

\* the vaccination answer  (src/server.py:334)
VACCINATION_ANSWER ==
    <<"H","e","r","e"," ","i","s"," ","t","h","e"," ","o","f","f","l","i","n","e"," ","v","a","c","c",
      "i","n","a","t","i","o","n"," ","s","c","h","e","d","u","l","e"," ","(","i","n","f","a","n",
      "t",","," ","c","h","i","l","d",","," ","a","d","u","l","t",","," ","p","r","e","g","n","a",
      "n","t",")",".">>

\* title_map, English  (src/server.py:253-258)
TITLE_MAP_EN ==
    [what |-> <<"A","b","o","u","t">>,
     symptoms |-> <<"S","y","m","p","t","o","m","s">>,
     prevention |-> <<"P","r","e","v","e","n","t","i","o","n">>,
     remedies |-> <<"R","e","m","e","d","i","e","s">>]

\* title_map, Hindi  (src/server.py:261-266)
TITLE_MAP_HI ==
    [what |-> <<"U0915","U094D","U092F","U093E"," ","U0939","U0948">>,
     symptoms |-> <<"U05DC","U0915","U094D","U0937","U0923">>,
     prevention |-> <<"U092C","U091A","U093E","U0935">>,
     remedies |-> <<"U0909","U092A","U091A","U093E","U0930"," ","/"," ","U0918","U0930","U0947","U0932","U0942"," ",
            "U0909","U092A","U093E","U092F">>]

\* VACCINATION_SCHEDULES, in insertion order  (src/vaccinations.py:4-9)
VACCINATION_SCHEDULES ==
    << [stage |-> <<"i","n","f","a","n","t">>,
        vaccines |-> << <<"B","C","G">>,
                     <<"O","P","V">>,
                     <<"H","e","p","a","t","i","t","i","s"," ","B">> >>],
       [stage |-> <<"c","h","i","l","d">>,
        vaccines |-> << <<"D","T","a","P">>,
                     <<"M","M","R">>,
                     <<"V","a","r","i","c","e","l","l","a">> >>],
       [stage |-> <<"a","d","u","l","t">>,
        vaccines |-> << <<"T","e","t","a","n","u","s"," ","b","o","o","s","t","e","r">>,
                     <<"I","n","f","l","u","e","n","z","a">> >>],
       [stage |-> <<"p","r","e","g","n","a","n","t">>,
        vaccines |-> << <<"T","T"," ","v","a","c","c","i","n","e">> >>] >>

\* preventive_health.MODULES, in insertion order  (src/preventive_health.py:4-9)
MODULES ==
    << [key |-> <<"h","y","g","i","e","n","e">>,
        text |-> <<"W","a","s","h"," ","h","a","n","d","s"," ","w","i","t","h"," ","s","o","a","p",","," ","k","e",
                  "e","p"," ","n","a","i","l","s"," ","s","h","o","r","t",","," ","a","v","o","i",
                  "d"," ","o","p","e","n"," ","d","e","f","e","c","a","t","i","o","n",".">>],
       [key |-> <<"n","u","t","r","i","t","i","o","n">>,
        text |-> <<"E","a","t"," ","v","e","g","e","t","a","b","l","e","s",","," ","f","r","u","i","t","s",","," ",
                  "d","a","l",","," ","e","g","g","s","."," ","L","i","m","i","t"," ","p","a","c",
                  "k","a","g","e","d"," ","f","o","o","d","s",".">>],
       [key |-> <<"s","a","n","i","t","a","t","i","o","n">>,
        text |-> <<"U","s","e"," ","t","o","i","l","e","t","s",","," ","k","e","e","p"," ","s","u","r","r","o","u",
                  "n","d","i","n","g","s"," ","c","l","e","a","n",","," ","c","o","v","e","r"," ",
                  "w","a","t","e","r"," ","c","o","n","t","a","i","n","e","r","s",".">>],
       [key |-> <<"m","e","n","t","a","l"," ","h","e","a","l","t","h">>,
        text |-> <<"S","l","e","e","p"," ","7","-","8"," ","h","o","u","r","s",","," ","t","a","l","k"," ","t","o",
                  " ","f","a","m","i","l","y",","," ","a","v","o","i","d"," ","i","s","o","l","a",
                  "t","i","o","n",".">>] >>

\* diseases_multilang.DISEASES, in insertion order  (src/diseases_multilang.py:4-13)
DISEASES ==
    << [key |-> <<"c","o","v","i","d">>,
        info |-> (<<"e","n">> :> <<"C","O","V","I","D","-","1","9"," ","i","s"," ","a"," ","v","i","r","a","l"," ","i","l","l","n",
                 "e","s","s"," ","a","f","f","e","c","t","i","n","g"," ","t","h","e"," ","r","e",
                 "s","p","i","r","a","t","o","r","y"," ","s","y","s","t","e","m",".">>)
             @@ (<<"h","i">> :> <<"C","O","V","I","D","-","1","9"," ","U090F","U0915"," ","U0936","U094D","U0935","U0938","U0928",
                 " ","U0924","U0902","U0924","U094D","U0930"," ","U0915","U094B"," ","U092A",
                 "U094D","U0930","U092D","U093E","U0935","U093F","U0924"," ","U0915","U0930",
                 "U0928","U0947"," ","U0935","U093E","U0932","U0940"," ","U092C","U0940","U092E",
                 "U093E","U0930","U0940"," ","U0939","U0948","U0964">>)
             @@ (<<"t","a">> :> <<"C","O","V","I","D","-","1","9"," ","U0B8E","U0BA9","U0BCD","U0BAA","U0BA4","U0BC1"," ","U0BAE",
                 "U0BC2","U0B9A","U0BCD","U0B9A","U0BC1","U0BA4","U0BCD","U0BA4","U0BBF","U0BA3",
                 "U0BB1","U0BB2","U0BCD"," ","U0B85","U0BAE","U0BC8","U0BAA","U0BCD","U0BAA",
                 "U0BC8"," ","U0BAA","U0BBE","U0BA4","U0BBF","U0B95","U0BCD","U0B95","U0BC1",
                 "U0BAE","U0BCD"," ","U0BA8","U0BCB","U0BAF","U0BCD",".">>)
             @@ (<<"t","e">> :> <<"C","O","V","I","D","-","1","9"," ","U0C36","U0C4D","U0C35","U0C3E","U0C38","U0C15","U0C4B",
                 "U0C36","U0C3E","U0C28","U0C4D","U0C28","U0C3F"," ","U0C2A","U0C4D","U0C30",
                 "U0C2D","U0C3E","U0C35","U0C3F","U0C24","U0C02"," ","U0C1A","U0C47","U0C38",
                 "U0C47"," ","U0C35","U0C48","U0C30","U0C32","U0C4D"," ","U0C35","U0C4D","U0C2F",
                 "U0C3E","U0C27","U0C3F",".">>)
             @@ (<<"k","n">> :> <<"C","O","V","I","D","-","1","9"," ","U0C89","U0CB8","U0CBF","U0CB0","U0CBE","U0C9F","U0CB5",
                 "U0CA8","U0CCD","U0CA8","U0CC1"," ","U0CAA","U0CCD","U0CB0","U0CAD","U0CBE",
                 "U0CB5","U0CBF","U0CB8","U0CC1","U0CB5"," ","U0CB0","U0CCB","U0C97",".">>)
             @@ (<<"m","l">> :> <<"C","O","V","I","D","-","1","9"," ","U0D36","U0D4D","U0D35","U0D3E","U0D38","U0D15","U0D4B",
                 "U0D36","U0D24","U0D4D","U0D24","U0D46"," ","U0D2C","U0D3E","U0D27","U0D3F",
                 "U0D15","U0D4D","U0D15","U0D41","U0D28","U0D4D","U0D28"," ","U0D35","U0D48",
                 "U0D31","U0D38","U0D4D"," ","U0D30","U0D4B","U0D17","U0D2E","U0D3E","U0D23",
                 "U0D4D",".">>)] >>

\* ------------------------------------------------------------------------
\* Optional values: None is the empty sequence, a value v is <<v>>
\* ------------------------------------------------------------------------
None == <<>>
Some(v) == <<v>>

\* ------------------------------------------------------------------------
\* Tokenizer and index builder
\* ------------------------------------------------------------------------
\* re.findall(r"\w+", s) from position i on: the maximal runs of word characters
RECURSIVE FindAllWords(_, _)
FindAllWords(s, i) ==
    IF i > Len(s) THEN <<>>
    ELSE IF ~IsWordChar(s[i]) THEN FindAllWords(s, i + 1)
    ELSE LET stop == CHOOSE j \in (i + 1)..(Len(s) + 1) :
                        /\ (j = Len(s) + 1 \/ ~IsWordChar(s[j]))
                        /\ \A k \in i..(j - 1) : IsWordChar(s[k])
         IN  <<SubSeq(s, i, stop - 1)>> \o FindAllWords(s, stop)

\* _tokenize: lowercase, word runs, stop words dropped
tokenize(t) == SelectSeq(FindAllWords(Lower(t), 1), LAMBDA tok : tok \notin STOP_WORDS)

\* the strings a language block contributes to the document, field by field
RECURSIVE Parts(_, _)
Parts(lang_block, fields) ==
    IF fields = <<>> THEN <<>>
    ELSE LET field == Head(fields)
             here  == IF field \notin DOMAIN lang_block THEN <<>>
                      ELSE IF lang_block[field].kind = "list" THEN lang_block[field].val
                      ELSE <<lang_block[field].val>>
         IN  here \o Parts(lang_block, Tail(fields))

\* one iteration of build_disease_index's loop: the index entry of a disease,
\* or nothing when it has no English block, no text or no token
IndexEntry(entry) ==
    LET lang_block == DictGet(entry.data, L_en, <<>>)
        parts      == Parts(lang_block, <<"what", "symptoms", "prevention", "remedies">>)
        tokens     == tokenize(Join(<<" ">>, parts))
    IN  IF DOMAIN lang_block = {} \/ parts = <<>> \/ tokens = <<>> THEN <<>>
        ELSE <<[key |-> entry.key, tokens |-> Range(tokens)]>>

\* build_disease_index: DISEASE_DOCS as the sequence of its items, in insertion order
RECURSIVE build_disease_index(_)
build_disease_index(faq) ==
    IF faq = <<>> THEN <<>>
    ELSE IndexEntry(Head(faq)) \o build_disease_index(Tail(faq))

\* ------------------------------------------------------------------------
\* nlp_guess_disease
\* ------------------------------------------------------------------------
\* faulty variant of Better: a later disease with an equal overlap replaces the best
BetterOrEqual(overlap, best_overlap) == overlap >= best_overlap

\* the comparison that replaces the best candidate
Better(overlap, best_overlap) == overlap > best_overlap

\* the threshold test after the loop
BelowThreshold(best_overlap) == best_overlap < 3

\* the loop over DISEASE_DOCS.items(), from item i on
RECURSIVE GuessLoop(_, _, _, _, _)
GuessLoop(docs, tokens, i, best_key, best_overlap) ==
    IF i > Len(docs) THEN [best_key |-> best_key, best_overlap |-> best_overlap]
    ELSE LET overlap == Cardinality(tokens \cap docs[i].tokens)
         IN  IF Better(overlap, best_overlap)
             THEN GuessLoop(docs, tokens, i + 1, docs[i].key, overlap)
             ELSE GuessLoop(docs, tokens, i + 1, best_key, best_overlap)

nlp_guess_disease(docs, t) ==
    LET tokens == Range(tokenize(t))
    IN  IF docs = <<>> THEN None
        ELSE IF tokens = {} THEN None
        ELSE LET best == GuessLoop(docs, tokens, 1, None, 0)
             IN  IF BelowThreshold(best.best_overlap) THEN None ELSE best.best_key

\* ------------------------------------------------------------------------
\* search_faq
\* ------------------------------------------------------------------------
\* the variants of a disease key tried as substrings
Variants(d) ==
    LET d_low == Lower(d)
    IN  {d_low, ReplaceChar(d_low, "_", " "), ReplaceChar(d_low, "-", " ")}

KeyInText(d, q) == \E v \in Variants(d) : Contains(v, q)

\* faulty variant of KeyLoop: no break, so the last matching key wins
RECURSIVE KeyLoopLast(_, _, _)
KeyLoopLast(faq, q, i) ==
    IF i > Len(faq) THEN None
    ELSE LET later == KeyLoopLast(faq, q, i + 1)
         IN  IF later # None THEN later
             ELSE IF KeyInText(faq[i].key, q) THEN faq[i].key
             ELSE None

\* the loop over FAQ.keys() with its break, from entry i on
RECURSIVE KeyLoop(_, _, _)
KeyLoop(faq, q, i) ==
    IF i > Len(faq) THEN None
    ELSE IF KeyInText(faq[i].key, q) THEN faq[i].key
    ELSE KeyLoop(faq, q, i + 1)

\* disease detection: the key loop, then the guess only if it found nothing
DetectDisease(faq, docs, q_orig, q) ==
    LET by_key == KeyLoop(faq, q, 1)
    IN  IF by_key # None
        THEN [disease_key |-> by_key, guessed |-> FALSE]
        ELSE [disease_key |-> nlp_guess_disease(docs, q_orig), guessed |-> TRUE]

AnyIn(words, q) == \E i \in DOMAIN words : Contains(words[i], q)

\* category detection: the English chain, then the Hindi chain over its result
DetectCategory(q) ==
    LET english == IF AnyIn(SYMPTOM_WORDS_EN, q) THEN "symptoms"
                   ELSE IF AnyIn(PREVENTION_WORDS_EN, q) THEN "prevention"
                   ELSE IF AnyIn(REMEDY_WORDS_EN, q) THEN "remedies"
                   ELSE "what"
    IN  IF AnyIn(SYMPTOM_WORDS_HI, q) THEN "symptoms"
        ELSE IF AnyIn(PREVENTION_WORDS_HI, q) THEN "prevention"
        ELSE IF AnyIn(REMEDY_WORDS_HI, q) THEN "remedies"
        ELSE english

\* FAQ.get(disease_key, {})
FaqGet(faq, disease_key) ==
    IF \E i \in DOMAIN faq : faq[i].key = disease_key
    THEN faq[CHOOSE i \in DOMAIN faq : faq[i].key = disease_key].data
    ELSE <<>>

\* disease_data.get(lang) or disease_data.get("en")
LangBlock(disease_data, lng) ==
    LET own == DictGet(disease_data, lng, <<>>)
    IN  IF DOMAIN own # {} THEN own ELSE DictGet(disease_data, L_en, <<>>)

\* faulty variant of SelectData: no fallback to "what"
SelectDataNoFallback(lang_block, category) ==
    IF category \in DOMAIN lang_block
    THEN [category |-> category, data |-> Some(lang_block[category])]
    ELSE [category |-> category, data |-> None]

\* the category answered and its content: the category asked for, else "what",
\* else nothing
SelectData(lang_block, category) ==
    IF category \in DOMAIN lang_block
    THEN [category |-> category, data |-> Some(lang_block[category])]
    ELSE IF "what" \in DOMAIN lang_block
    THEN [category |-> "what", data |-> Some(lang_block["what"])]
    ELSE [category |-> category, data |-> None]

\* the heading of a category
Heading(category, lng) == IF lng = L_hi THEN TITLE_MAP_HI[category] ELSE TITLE_MAP_EN[category]

DiseaseTitle(disease_key) == Title(ReplaceChar(ReplaceChar(disease_key, "_", " "), "-", " "))

\* faulty variant of BulletLines: only the first item is rendered
BulletLinesFirstOnly(items) ==
    IF items = <<>> THEN <<>> ELSE <<"U2022", " ">> \o items[1]

\* "\n".join("• " + item for item in data)
BulletLines(items) == Join(<<"U000A">>, [i \in DOMAIN items |-> <<"U2022", " ">> \o items[i]])

\* "*%s – %s*\n%s" % (disease_title, heading, body)
FormatAnswer(disease_key, heading, data) ==
    <<"*">> \o DiseaseTitle(disease_key) \o <<" ", "U2013", " ">> \o heading \o <<"*", "U000A">>
        \o (IF data.kind = "list" THEN BulletLines(data.val) ELSE data.val)

\* the locals of a search_faq call that never ran or returned before detection
NoFrame ==
    [ran |-> FALSE, q |-> <<>>, disease_key |-> None, guessed |-> FALSE, lang_block |-> <<>>,
     asked |-> "what", category |-> "what", answer |-> None]

\* search_faq, with the locals it held when it returned
FaqLookup(faq, docs, t, lng0) ==
    LET q_orig == t
        q      == Strip(Lower(t))
        lng    == IF lng0 \in SUPPORTED_LANGS THEN lng0 ELSE L_en
        found  == DetectDisease(faq, docs, q_orig, q)
        lang_block == LangBlock(FaqGet(faq, found.disease_key), lng)
        asked  == DetectCategory(q)
        sel    == SelectData(lang_block, asked)
        frame0 == [NoFrame EXCEPT !.ran = TRUE, !.q = q]
        frame1 == [frame0 EXCEPT !.disease_key = found.disease_key, !.guessed = found.guessed]
        frame2 == [frame1 EXCEPT !.lang_block = lang_block]
        frame3 == [frame2 EXCEPT !.asked = asked, !.category = sel.category]
    IN  IF faq = <<>> \/ t = <<>> THEN frame0
        ELSE IF found.disease_key = None THEN frame1
        ELSE IF DOMAIN lang_block = {} THEN frame2
        ELSE IF sel.data = None THEN frame3
        ELSE [frame3 EXCEPT !.answer =
                 Some(FormatAnswer(found.disease_key, Heading(sel.category, lng), sel.data[1]))]

\* faulty variant of search_faq: answers remembered by text alone, whatever the language
search_faq_cached(faq, docs, t, lng) ==
    LET hits == {e \in served : Strip(e.req[1]) = t /\ e.result.type = "faq"}
    IN  IF hits # {} THEN Some((CHOOSE e \in hits : TRUE).result.answer)
        ELSE FaqLookup(faq, docs, t, lng).answer

\* faulty variant of search_faq: a notice instead of None when nothing is loaded
search_faq_notice(faq, docs, t, lng) ==
    IF faq = <<>> THEN Some(FALLBACK_MESSAGE[L_en])
    ELSE FaqLookup(faq, docs, t, lng).answer

search_faq(faq, docs, t, lng) == FaqLookup(faq, docs, t, lng).answer

\* ------------------------------------------------------------------------
\* process_message: the stages and their results
\* ------------------------------------------------------------------------
\* lang = (lang or "en").lower(), then "en" unless supported
NormLang(lng) ==
    LET low == Lower(IF lng = <<>> THEN L_en ELSE lng)
    IN  IF low \in SUPPORTED_LANGS THEN low ELSE L_en

\* the stages in program order
StageOrder ==
    <<"empty", "greeting", "thanks", "faq", "vaccination", "preventive", "legacy", "fallback">>

\* faulty variant of NextStage: the FAQ lookup placed before the thanks check
NextStageFaqFirst(s) ==
    CASE s = "empty"       -> "greeting"
      [] s = "greeting"    -> "faq"
      [] s = "faq"         -> "thanks"
      [] s = "thanks"      -> "vaccination"
      [] s = "vaccination" -> "preventive"
      [] s = "preventive"  -> "legacy"
      [] s = "legacy"      -> "fallback"

\* the stage the program falls through to after stage s found nothing
NextStage(s) ==
    StageOrder[(CHOOSE i \in DOMAIN StageOrder : StageOrder[i] = s) + 1]

\* the greeting test without its second disjunct: lower == g only
GreetingMatchExactOnly(lower, lng) ==
    LET kw == DictGet(GREET_KEYWORDS, lng, <<>>)
    IN  \E i \in DOMAIN kw : lower = kw[i]

\* lower == g or lower.startswith(g + " ") for some greeting keyword g
GreetingMatch(lower, lng) ==
    LET kw == DictGet(GREET_KEYWORDS, lng, <<>>)
    IN  \E i \in DOMAIN kw : lower = kw[i] \/ StartsWith(lower, kw[i] \o <<" ">>)

ThanksMatch(lower, lng) == AnyIn(DictGet(THANK_KEYWORDS, lng, <<>>), lower)

VaccinationMatch(lower) == AnyIn(VACCINATION_WORDS, lower)

\* the first module key found in the text, as an index into MODULES, or 0
PreventiveMatch(lower) ==
    LET hits == {i \in DOMAIN MODULES : Contains(MODULES[i].key, lower)}
    IN  IF hits = {} THEN 0 ELSE CHOOSE i \in hits : \A j \in hits : i <= j

\* diseases_multilang.find_disease
find_disease(t, lng) ==
    LET low  == Lower(t)
        hits == {i \in DOMAIN DISEASES : Contains(DISEASES[i].key, low)}
    IN  IF hits = {} THEN None
        ELSE LET info == DISEASES[CHOOSE i \in hits : \A j \in hits : i <= j].info
                 own  == DictGet(info, lng, <<>>)
             IN  IF own # <<>> THEN own ELSE DictGet(info, L_en, <<>>)

\* whether stage s produces the result for this message
StageHolds(s, faq, docs, t, lng) ==
    CASE s = "empty"       -> t = <<>>
      [] s = "greeting"    -> GreetingMatch(Lower(t), lng)
      [] s = "thanks"      -> ThanksMatch(Lower(t), lng)
      [] s = "faq"         -> search_faq(faq, docs, t, lng) # None
      [] s = "vaccination" -> VaccinationMatch(Lower(t))
      [] s = "preventive"  -> PreventiveMatch(Lower(t)) # 0
      [] s = "legacy"      -> find_disease(t, lng) # None
      [] s = "fallback"    -> TRUE

GreetingResult(lng)  == [type |-> "greeting", answer |-> DictGet(GREET_MESSAGE, lng, GREET_MESSAGE[L_en])]
EmptyResult(lng)     == [type |-> "fallback", answer |-> DictGet(GREET_MESSAGE, lng, GREET_MESSAGE[L_en])]
ThanksResult(lng)    == [type |-> "thanks", answer |-> DictGet(thank_reply, lng, thank_reply[L_en])]
FaqResult(answer)    == [type |-> "faq", answer |-> answer]
\* faulty variant of VaccinationResult: the schedule is left out
VaccinationResultNoExtra ==
    [type |-> "vaccination", answer |-> VACCINATION_ANSWER]
VaccinationResult    ==
    [type |-> "vaccination", answer |-> VACCINATION_ANSWER, extra |-> VACCINATION_SCHEDULES]
PreventiveResult(i)  == [type |-> "preventive", answer |-> MODULES[i].text]
LegacyResult(info)   == [type |-> "disease", answer |-> info]
FallbackResult(lng)  == [type |-> "fallback", answer |-> DictGet(FALLBACK_MESSAGE, lng, FALLBACK_MESSAGE[L_en])]

\* the result stage s returns
StageResult(s, faq, docs, t, lng) ==
    CASE s = "empty"       -> EmptyResult(lng)
      [] s = "greeting"    -> GreetingResult(lng)
      [] s = "thanks"      -> ThanksResult(lng)
      [] s = "faq"         -> FaqResult(search_faq(faq, docs, t, lng)[1])
      [] s = "vaccination" -> VaccinationResult
      [] s = "preventive"  -> PreventiveResult(PreventiveMatch(Lower(t)))
      [] s = "legacy"      -> LegacyResult(find_disease(t, lng))
      [] s = "fallback"    -> FallbackResult(lng)

\* ------------------------------------------------------------------------
\* Knowledge bases the server may have loaded from faq.json, and the
\* requests it receives
\* ------------------------------------------------------------------------
\* FAQ = {}: faq.json missing or empty
KB_EMPTY == <<>>

\* dengue (en without remedies, hi with what and symptoms only), malaria (en only),
\* heart_attack (en symptoms only: no what)
KB_A ==
    << [key |-> <<"d","e","n","g","u","e">>,
        data |-> (L_en :> [what |-> [kind |-> "str", val |-> <<"A"," ","v","i","r","a","l"," ","i","n","f","e","c","t","i","o","n",".">>],
                symptoms |-> [kind |-> "list", val |-> << <<"f","e","v","e","r">>,
                                   <<"r","a","s","h">>,
                                   <<"j","o","i","n","t"," ","p","a","i","n">> >>],
                prevention |-> [kind |-> "list", val |-> << <<"r","e","m","o","v","e"," ","s","t","a","n","d","i","n","g"," ","w","a","t","e","r">> >>]])
             @@ (L_hi :> [what |-> [kind |-> "str", val |-> <<"U0921","U0947","U0902","U0917","U0942"," ","U090F","U0915"," ","U0935","U093E","U092F","U0930",
                                  "U0932"," ","U0938","U0902","U0915","U094D","U0930","U092E",
                                  "U0923"," ","U0939","U0948","U0964">>],
                symptoms |-> [kind |-> "list", val |-> << <<"U092C","U0941","U0916","U093E","U0930">>,
                                   <<"U091A","U0915","U0924","U094D","U0924","U0947">> >>]])],
       [key |-> <<"m","a","l","a","r","i","a">>,
        data |-> (L_en :> [what |-> [kind |-> "str", val |-> <<"M","a","l","a","r","i","a"," ","i","s"," ","s","p","r","e","a","d"," ","b","y"," ","m","o","s",
                                  "q","u","i","t","o","e","s",".">>],
                symptoms |-> [kind |-> "list", val |-> << <<"f","e","v","e","r">>,
                                   <<"c","h","i","l","l","s">>,
                                   <<"p","a","i","n">>,
                                   <<"r","a","s","h">> >>],
                remedies |-> [kind |-> "str", val |-> <<"S","e","e"," ","a"," ","d","o","c","t","o","r",".">>]])],
       [key |-> <<"h","e","a","r","t","_","a","t","t","a","c","k">>,
        data |-> (L_en :> [symptoms |-> [kind |-> "list", val |-> << <<"c","h","e","s","t"," ","p","a","i","n">> >>]])] >>

W_Hi == <<"H","i">>
W_thanks == <<"t","h","a","n","k","s">>
W_dengue == <<"d","e","n","g","u","e">>
W_vaccine == <<"v","a","c","c","i","n","e">>
W_hygiene == <<"h","y","g","i","e","n","e">>
W_covid == <<"c","o","v","i","d">>
W_malaria == <<"m","a","l","a","r","i","a">>
W_heart_attack == <<"h","e","a","r","t"," ","a","t","t","a","c","k">>
W_heart_attack_key == <<"H","e","a","r","t","_","A","t","t","a","c","k">>
W_symptoms == <<"s","y","m","p","t","o","m","s">>
W_prevent == <<"p","r","e","v","e","n","t">>
W_cure == <<"c","u","r","e">>
W_lakshan == <<"U0932","U0915","U094D","U0937","U0923">>
W_ilaaj == <<"U0907","U0932","U093E","U091C">>
W_fever == <<"f","e","v","e","r">>
W_rash == <<"r","a","s","h">>
W_pain == <<"p","a","i","n">>
W_chills == <<"c","h","i","l","l","s">>
W_hiv == <<"h","i","v">>
W_HELLO == <<"H","E","L","L","O">>
W_namaste == <<"n","a","m","a","s","t","e">>
W_namaste_hi == <<"U0928","U092E","U0938","U094D","U0924","U0947">>

KnowledgeBases == {KB_EMPTY, KB_A}

\* the words of the texts, in three families: one for the stages of the router,
\* one for category detection and fallback, one for the token-overlap guess
RouterWords   == {W_Hi, W_thanks, W_dengue, W_vaccine, W_hygiene, W_covid}
CategoryWords == {W_dengue, W_symptoms, W_prevent, W_cure, W_lakshan, W_ilaaj}
GuessWords    == {W_fever, W_rash, W_pain, W_chills, W_dengue, W_malaria}

\* the texts of 1..n words of a family, the words separated by one space
TextsOf(words, n) ==
    {Join(<<" ">>, ws) : ws \in UNION {[1..k -> words] : k \in 1..n}}

Texts(n) ==
    TextsOf(RouterWords, n) \cup TextsOf(CategoryWords, n) \cup TextsOf(GuessWords, n)

\* texts about the greeting keywords: a word that merely begins with one
\* ("hiv"), an upper-case English keyword, Hindi keywords in both scripts,
\* each bare and followed by another word
GreetTexts ==
    {W_hiv, Join(<<" ">>, <<W_hiv, W_symptoms>>),
     W_HELLO, Join(<<" ">>, <<W_HELLO, W_dengue>>),
     W_namaste, Join(<<" ">>, <<W_namaste, W_dengue>>),
     W_namaste_hi, Join(<<" ">>, <<W_namaste_hi, W_dengue>>)}

\* one-word texts, bare and surrounded by whitespace, and the empty text
ShortTexts ==
    LET one == TextsOf(RouterWords \cup CategoryWords \cup GuessWords, 1)
                   \cup {W_heart_attack, W_heart_attack_key,
                         Join(<<" ">>, <<W_heart_attack, W_symptoms>>),
                         Join(<<" ">>, <<W_heart_attack, W_cure>>)}
                   \cup GreetTexts
    IN  one \cup {<<" ">> \o t \o <<" ", "U000A">> : t \in one} \cup {<<>>, <<" ", " ">>}

\* language codes as sent: supported, upper case, unsupported, missing
L_HI == <<"H","I">>
L_ta == <<"t","a">>

\* the requests of the one-worker server: English ones of up to MaxWords words,
\* Hindi ones a word shorter, and the short texts under every language code
Requests ==
    (Texts(MaxWords) \X {L_en}) \cup (Texts(MaxWords - 1) \X {L_HI})
        \cup (ShortTexts \X {L_en, L_HI, L_ta, <<>>})

\* the requests of the two-worker server
SampleRequests ==
    {W_dengue, Join(<<" ">>, <<W_fever, W_rash, W_pain>>)} \X {L_en, L_hi}

\* ------------------------------------------------------------------------
\* The server: state
\* ------------------------------------------------------------------------
\* no dict returned yet
NoResult == <<>>

\* the web endpoint alone, and two requests in flight at once
OneWorker == {"w1"}
TwoWorkers == {"w1", "w2"}

\* module load: FAQ read, the index built from it, every worker idle
Startup(faq, workers) ==
    /\ FAQ = faq
    /\ DISEASE_DOCS = build_disease_index(faq)
    /\ pc = [w \in workers |-> "idle"]
    /\ req = [w \in workers |-> <<>>]
    /\ text = [w \in workers |-> <<>>]
    /\ lang = [w \in workers |-> L_en]
    /\ trace = [w \in workers |-> <<>>]
    /\ frame = [w \in workers |-> NoFrame]
    /\ result = [w \in workers |-> NoResult]
    /\ served = {}

Init == \E faq \in KnowledgeBases : Startup(faq, OneWorker)

InitServer == \E faq \in KnowledgeBases : Startup(faq, TwoWorkers)

\* ------------------------------------------------------------------------
\* The server: actions
\* ------------------------------------------------------------------------
\* process_message entered with one of the requests: text stripped, lang resolved
Receive(w, requests) ==
    /\ pc[w] = "idle"
    /\ \E r \in requests :
          /\ req' = [req EXCEPT ![w] = r]
          /\ text' = [text EXCEPT ![w] = Strip(r[1])]
          /\ lang' = [lang EXCEPT ![w] = NormLang(r[2])]
    /\ pc' = [pc EXCEPT ![w] = "empty"]
    /\ trace' = [trace EXCEPT ![w] = <<>>]
    /\ frame' = [frame EXCEPT ![w] = NoFrame]
    /\ result' = [result EXCEPT ![w] = NoResult]
    /\ UNCHANGED <<FAQ, DISEASE_DOCS, served>>

\* one stage of process_message: return its result, or fall through
RunStage(w, s) ==
    /\ trace' = [trace EXCEPT ![w] = Append(@, s)]
    /\ frame' = IF s = "faq"
                THEN [frame EXCEPT ![w] = FaqLookup(FAQ, DISEASE_DOCS, text[w], lang[w])]
                ELSE frame
    /\ IF StageHolds(s, FAQ, DISEASE_DOCS, text[w], lang[w])
       THEN /\ result' = [result EXCEPT ![w] = StageResult(s, FAQ, DISEASE_DOCS, text[w], lang[w])]
            /\ pc' = [pc EXCEPT ![w] = "done"]
       ELSE /\ result' = result
            /\ pc' = [pc EXCEPT ![w] = NextStage(s)]
    /\ UNCHANGED <<FAQ, DISEASE_DOCS, req, text, lang, served>>

\* if not text
StageEmpty(w) ==
    /\ pc[w] = "empty"
    /\ RunStage(w, "empty")

\* 0) greetings
StageGreeting(w) ==
    /\ pc[w] = "greeting"
    /\ RunStage(w, "greeting")

\* 0.5) thank-you messages
StageThanks(w) ==
    /\ pc[w] = "thanks"
    /\ RunStage(w, "thanks")

\* 1) FAQ
StageFaq(w) ==
    /\ pc[w] = "faq"
    /\ RunStage(w, "faq")

\* 2) vaccination schedule
StageVaccination(w) ==
    /\ pc[w] = "vaccination"
    /\ RunStage(w, "vaccination")

\* 3) preventive health modules
StagePreventive(w) ==
    /\ pc[w] = "preventive"
    /\ RunStage(w, "preventive")

\* 4) simple disease info module
StageLegacy(w) ==
    /\ pc[w] = "legacy"
    /\ RunStage(w, "legacy")

\* 5) fallback
StageFallback(w) ==
    /\ pc[w] = "fallback"
    /\ RunStage(w, "fallback")

\* the worker's locals are gone once the call has returned
Release(w) ==
    /\ pc' = [pc EXCEPT ![w] = "idle"]
    /\ req' = [req EXCEPT ![w] = <<>>]
    /\ text' = [text EXCEPT ![w] = <<>>]
    /\ lang' = [lang EXCEPT ![w] = L_en]
    /\ trace' = [trace EXCEPT ![w] = <<>>]
    /\ frame' = [frame EXCEPT ![w] = NoFrame]
    /\ result' = [result EXCEPT ![w] = NoResult]
    /\ UNCHANGED <<FAQ, DISEASE_DOCS>>

\* the endpoint sends the result
Respond(w) ==
    /\ pc[w] = "done"
    /\ Release(w)
    /\ UNCHANGED served

\* the endpoint sends the result; the call is remembered while there is room
RespondRemembered(w) ==
    /\ pc[w] = "done"
    /\ Release(w)
    /\ served' = IF Cardinality(served) < MaxServed
                 THEN served \cup {[req |-> req[w], result |-> result[w]]}
                 ELSE served

Stages(w) ==
    \/ StageEmpty(w)
    \/ StageGreeting(w)
    \/ StageThanks(w)
    \/ StageFaq(w)
    \/ StageVaccination(w)
    \/ StagePreventive(w)
    \/ StageLegacy(w)
    \/ StageFallback(w)

Next ==
    \E w \in OneWorker :
        \/ Receive(w, Requests)
        \/ Stages(w)
        \/ Respond(w)

Spec == Init /\ [][Next]_vars

NextServer ==
    \E w \in TwoWorkers :
        \/ Receive(w, SampleRequests)
        \/ Stages(w)
        \/ RespondRemembered(w)

SpecServer == InitServer /\ [][NextServer]_vars

\* ------------------------------------------------------------------------
\* Properties
\* ------------------------------------------------------------------------
InFlight(w) == pc[w] # "idle"
Returned(w) == pc[w] = "done"

\* the position in StageOrder of the first stage whose condition holds
FirstStage(faq, docs, t, lng) ==
    CHOOSE i \in DOMAIN StageOrder :
        /\ StageHolds(StageOrder[i], faq, docs, t, lng)
        /\ \A j \in 1..(i - 1) : ~StageHolds(StageOrder[j], faq, docs, t, lng)

\* the intent type a stage returns
StageType(s) ==
    CASE s = "empty"  -> "fallback"
      [] s = "legacy" -> "disease"
      [] OTHER        -> s

\* C1: the stages run in the order empty, greeting, thanks, FAQ, vaccination,
\* preventive, legacy, fallback; the returned type is that of the first stage
\* whose condition holds and no stage after it has run; a greeting that also
\* names a disease returns greeting, and a thanks message that is no greeting
\* returns thanks without the FAQ stage having run.
C1_StageOrder ==
    \A w \in DOMAIN pc :
        /\ InFlight(w) /\ ~Returned(w) =>
              \E k \in DOMAIN StageOrder :
                  /\ pc[w] = StageOrder[k]
                  /\ trace[w] = SubSeq(StageOrder, 1, k - 1)
                  /\ \A j \in 1..(k - 1) :
                        ~StageHolds(StageOrder[j], FAQ, DISEASE_DOCS, text[w], lang[w])
        /\ Returned(w) =>
              LET first == FirstStage(FAQ, DISEASE_DOCS, text[w], lang[w])
              IN  /\ result[w].type = StageType(StageOrder[first])
                  /\ trace[w] = SubSeq(StageOrder, 1, first)
                  /\ (GreetingMatch(Lower(text[w]), lang[w]) => result[w].type = "greeting")
                  /\ (/\ text[w] # <<>>
                      /\ ThanksMatch(Lower(text[w]), lang[w])
                      /\ ~GreetingMatch(Lower(text[w]), lang[w])
                      => result[w].type = "thanks" /\ "faq" \notin Range(trace[w]))

\* a greeting that also names a disease of the knowledge base was answered
C1_Witness ==
    \E w \in DOMAIN pc :
        /\ Returned(w)
        /\ GreetingMatch(Lower(text[w]), lang[w])
        /\ KeyLoop(FAQ, Strip(Lower(text[w])), 1) # None
        /\ result[w].type = "greeting"

\* what a content value is rendered as
Rendered(content) == IF content.kind = "list" THEN BulletLines(content.val) ELSE content.val

\* C2: an answer found by the token-overlap guess holds none of the disease's
\* category content.
C2_InferredCautionOnly ==
    \A w \in DOMAIN pc :
        frame[w].ran /\ frame[w].guessed /\ frame[w].answer # None =>
            \A c \in DOMAIN frame[w].lang_block :
                ~Contains(Rendered(frame[w].lang_block[c]), frame[w].answer[1])

\* s.split("\n")
RECURSIVE SplitLines(_)
SplitLines(s) ==
    IF \A i \in DOMAIN s : s[i] # "U000A" THEN <<s>>
    ELSE LET cut == CHOOSE i \in DOMAIN s :
                        s[i] = "U000A" /\ \A j \in 1..(i - 1) : s[j] # "U000A"
         IN  <<SubSeq(s, 1, cut - 1)>> \o SplitLines(SubSeq(s, cut + 1, Len(s)))

\* the header line of an answer
Header(disease_key, category, lng) ==
    <<"*">> \o DiseaseTitle(disease_key) \o <<" ", "U2013", " ">> \o Heading(category, lng) \o <<"*">>

\* the answer is the header of the category followed by all of the content:
\* one bullet line per item in order, or the string itself
Carries(answer, disease_key, category, lng, content) ==
    LET lines == SplitLines(answer)
    IN  /\ lines[1] = Header(disease_key, category, lng)
        /\ IF content.kind = "list"
           THEN /\ Len(lines) = 1 + (IF content.val = <<>> THEN 1 ELSE Len(content.val))
                /\ \A i \in DOMAIN content.val :
                      lines[i + 1] = <<"U2022", " ">> \o content.val[i]
           ELSE answer = lines[1] \o <<"U000A">> \o content.val

\* C3: on a key-substring match whose language block has the category asked
\* for, the answer is the header of that disease and category followed by all
\* of the category's content.
C3_ExplicitAnswer ==
    \A w \in DOMAIN pc :
        /\ frame[w].ran
        /\ frame[w].disease_key # None
        /\ ~frame[w].guessed
        /\ frame[w].asked \in DOMAIN frame[w].lang_block
        => /\ frame[w].answer # None
           /\ frame[w].category = frame[w].asked
           /\ Carries(frame[w].answer[1], frame[w].disease_key, frame[w].asked, lang[w],
                      frame[w].lang_block[frame[w].asked])
           /\ (Returned(w) => result[w] = [type |-> "faq", answer |-> frame[w].answer[1]])

\* "dengue symptoms" was answered with both symptoms of a list of several
C3_Witness ==
    \E w \in DOMAIN pc :
        /\ Returned(w)
        /\ frame[w].ran /\ ~frame[w].guessed
        /\ frame[w].disease_key = W_dengue
        /\ frame[w].asked = "symptoms"
        /\ lang[w] = L_en
        /\ Contains(<<"U2022", " ">> \o W_fever \o <<"U000A", "U2022", " ">> \o W_rash,
                    result[w].answer)

\* the overlap of a token set with item i of the index
Overlap(docs, tokens, i) == Cardinality(tokens \cap docs[i].tokens)

\* the reference result of the guess: none below 3, else the first disease
\* with the maximum overlap
GuessReference(docs, t) ==
    LET tokens == Range(tokenize(t))
        most   == IF docs = <<>> THEN 0
                  ELSE CHOOSE n \in 0..Cardinality(tokens) :
                          /\ \E i \in DOMAIN docs : Overlap(docs, tokens, i) = n
                          /\ \A i \in DOMAIN docs : Overlap(docs, tokens, i) <= n
    IN  IF most < 3 THEN None
        ELSE docs[CHOOSE i \in DOMAIN docs :
                      /\ Overlap(docs, tokens, i) = most
                      /\ \A j \in 1..(i - 1) : Overlap(docs, tokens, j) < most].key

\* C4: nlp_guess_disease returns the reference result for the text of every
\* call, and a disease found by the guess is the reference result.
C4_GuessIsReference ==
    \A w \in DOMAIN pc :
        /\ InFlight(w) =>
              nlp_guess_disease(DISEASE_DOCS, text[w]) = GuessReference(DISEASE_DOCS, text[w])
        /\ frame[w].ran /\ frame[w].guessed =>
              frame[w].disease_key = GuessReference(DISEASE_DOCS, text[w])

\* the guess resolved a text on which two diseases tie at the maximum overlap
C4_Witness ==
    \E w \in DOMAIN pc :
        /\ frame[w].ran /\ frame[w].guessed /\ frame[w].disease_key # None
        /\ LET tokens == Range(tokenize(text[w]))
           IN  \E i, j \in DOMAIN DISEASE_DOCS :
                  /\ i < j
                  /\ Overlap(DISEASE_DOCS, tokens, i) = Overlap(DISEASE_DOCS, tokens, j)
                  /\ \A k \in DOMAIN DISEASE_DOCS :
                        Overlap(DISEASE_DOCS, tokens, k) <= Overlap(DISEASE_DOCS, tokens, i)
                  /\ frame[w].disease_key = DISEASE_DOCS[i].key

\* the category by the keywords of one language alone, symptoms before
\* prevention before remedies
CategoryOfLanguage(q, lng) ==
    LET symptoms   == IF lng = L_hi THEN SYMPTOM_WORDS_HI ELSE SYMPTOM_WORDS_EN
        prevention == IF lng = L_hi THEN PREVENTION_WORDS_HI ELSE PREVENTION_WORDS_EN
        remedies   == IF lng = L_hi THEN REMEDY_WORDS_HI ELSE REMEDY_WORDS_EN
    IN  IF AnyIn(symptoms, q) THEN "symptoms"
        ELSE IF AnyIn(prevention, q) THEN "prevention"
        ELSE IF AnyIn(remedies, q) THEN "remedies"
        ELSE "what"

\* C5: the category asked for is decided by the keywords of the resolved
\* language alone, symptoms before prevention before remedies, else what.
C5_CategoryByLanguage ==
    \A w \in DOMAIN pc :
        frame[w].ran /\ frame[w].disease_key # None /\ DOMAIN frame[w].lang_block # {} =>
            frame[w].asked = CategoryOfLanguage(frame[w].q, lang[w])

\* C6: when the language block lacks the category asked for, the answer is
\* the what content under the what heading; when it lacks what as well there
\* is no answer and process_message goes on to the later stages.
C6_CategoryFallback ==
    \A w \in DOMAIN pc :
        /\ frame[w].ran
        /\ frame[w].disease_key # None
        /\ DOMAIN frame[w].lang_block # {}
        /\ frame[w].asked \notin DOMAIN frame[w].lang_block
        => IF "what" \in DOMAIN frame[w].lang_block
           THEN /\ frame[w].category = "what"
                /\ frame[w].answer # None
                /\ Carries(frame[w].answer[1], frame[w].disease_key, "what", lang[w],
                           frame[w].lang_block["what"])
                /\ (Returned(w) => result[w] = [type |-> "faq", answer |-> frame[w].answer[1]])
           ELSE /\ frame[w].answer = None
                /\ pc[w] \in {"vaccination", "preventive", "legacy", "fallback", "done"}
                /\ (Returned(w) => result[w].type # "faq" /\ "vaccination" \in Range(trace[w]))

\* remedies were asked of a disease that has none, and what was answered
C6_Witness ==
    \E w \in DOMAIN pc :
        /\ Returned(w)
        /\ frame[w].ran /\ frame[w].disease_key # None
        /\ frame[w].asked = "remedies"
        /\ "remedies" \notin DOMAIN frame[w].lang_block
        /\ frame[w].category = "what"
        /\ result[w].type = "faq"

IntentTypes == {"greeting", "thanks", "faq", "vaccination", "preventive", "disease", "fallback"}

\* C7: a returned result carries extra exactly when its type is vaccination,
\* and extra is then the whole vaccination schedule.
C7_ExtraOnlyVaccination ==
    \A w \in DOMAIN pc :
        Returned(w) =>
            /\ result[w].type \in IntentTypes
            /\ ("extra" \in DOMAIN result[w]) <=> (result[w].type = "vaccination")
            /\ result[w].type = "vaccination" =>
                  /\ result[w].extra = VACCINATION_SCHEDULES
                  /\ {result[w].extra[i].stage : i \in DOMAIN result[w].extra}
                        = {<<"i","n","f","a","n","t">>, <<"c","h","i","l","d">>,
                           <<"a","d","u","l","t">>, <<"p","r","e","g","n","a","n","t">>}

\* a vaccination result was returned
C7_Witness ==
    \E w \in DOMAIN pc :
        /\ Returned(w)
        /\ result[w].type = "vaccination"
        /\ "extra" \in DOMAIN result[w]

\* a returned call agrees with every remembered call and every other
\* returned call of the same request
Deterministic ==
    \A w \in DOMAIN pc :
        Returned(w) =>
            /\ \A e \in served : e.req = req[w] => e.result = result[w]
            /\ \A v \in DOMAIN pc : Returned(v) /\ req[v] = req[w] => result[v] = result[w]

\* C8: no step changes FAQ or DISEASE_DOCS, and a call returns what every
\* earlier or concurrent call of the same request returned.
C8_Stateless ==
    [][FAQ' = FAQ /\ DISEASE_DOCS' = DISEASE_DOCS /\ Deterministic']_vars

\* a request returned again after another request was served in between,
\* while the other worker is in the middle of a call
C8_Witness ==
    \E w, v \in DOMAIN pc :
        /\ Returned(w)
        /\ InFlight(v) /\ ~Returned(v)
        /\ \E e \in served : e.req = req[w]
        /\ \E e \in served : e.req # req[w]
        /\ DISEASE_DOCS # <<>>

\* C9: with FAQ = {} the index is empty, search_faq answers nothing, and
\* every call goes on to return a non-FAQ intent, fallback when no other
\* stage matches.
C9_EmptyKnowledgeBase ==
    FAQ = <<>> =>
        /\ DISEASE_DOCS = <<>>
        /\ \A w \in DOMAIN pc :
              /\ frame[w].ran => frame[w].answer = None
              /\ InFlight(w) /\ ~Returned(w) => ENABLED Stages(w)
              /\ Returned(w) =>
                    /\ result[w].type \in IntentTypes \ {"faq"}
                    /\ (\A s \in {"greeting", "thanks", "vaccination", "preventive", "legacy"} :
                            ~StageHolds(s, FAQ, DISEASE_DOCS, text[w], lang[w]))
                       /\ text[w] # <<>>
                       => result[w] = FallbackResult(lang[w])

\* with nothing loaded, a text naming a disease went through the FAQ stage
\* and got the fallback
C9_Witness ==
    /\ FAQ = <<>>
    /\ \E w \in DOMAIN pc :
          /\ Returned(w)
          /\ frame[w].ran
          /\ Contains(W_dengue, text[w])
          /\ result[w].type = "fallback"

\* C10: when some disease key is a substring of the text, the disease is the
\* first such key of the knowledge base and the guess is not consulted.
C10_FirstKeyWins ==
    \A w \in DOMAIN pc :
        frame[w].ran /\ text[w] # <<>> =>
            LET hits == {i \in DOMAIN FAQ : KeyInText(FAQ[i].key, frame[w].q)}
            IN  hits # {} =>
                   /\ frame[w].disease_key = FAQ[CHOOSE i \in hits : \A j \in hits : i <= j].key
                   /\ ~frame[w].guessed

\* a text naming malaria first and dengue second resolved to dengue, the
\* earlier key of the knowledge base
C10_Witness ==
    \E w \in DOMAIN pc :
        /\ frame[w].ran
        /\ StartsWith(frame[w].q, W_malaria)
        /\ Contains(W_dengue, frame[w].q)
        /\ frame[w].disease_key = W_dengue
        /\ ~frame[w].guessed

\* the greeting keywords of one language, as a set
GreetingWordsOf(lng) ==
    {GREET_KEYWORDS[lng][i] : i \in DOMAIN GREET_KEYWORDS[lng]}

\* the greeting keywords of the languages other than lng
GreetingWordsNotOf(lng) ==
    UNION {GreetingWordsOf(l) : l \in DOMAIN GREET_KEYWORDS \ {lng}}

\* t, case ignored, is one of the keywords or begins with one
BeginsWithOneOf(t, keywords) ==
    \E g \in keywords : StartsWith(Lower(t), g)

\* t, case ignored, is one of the keywords or begins with one and a space
LeadsWithOneOf(t, keywords) ==
    \E g \in keywords : Lower(t) = g \/ StartsWith(Lower(t), g \o <<" ">>)

\* the greeting reply of a language
GreetingReply(lng) == [type |-> "greeting", answer |-> GREET_MESSAGE[lng]]

\* C11 as stated: a non-empty input that, case ignored, is equal to or begins
\* with a greeting keyword of the resolved language is answered with the
\* greeting of that language, and keywords of other languages do not make a
\* greeting.
C11_GreetingPrefix ==
    \A w \in DOMAIN pc :
        Returned(w) /\ req[w][1] # <<>> =>
            /\ BeginsWithOneOf(req[w][1], GreetingWordsOf(lang[w]))
                  => result[w] = GreetingReply(lang[w])
            /\ BeginsWithOneOf(req[w][1], GreetingWordsNotOf(lang[w]))
                  /\ ~BeginsWithOneOf(req[w][1], GreetingWordsOf(lang[w]))
                  => result[w].type # "greeting"

\* C11, amended: a non-empty input that, case ignored, is equal to a greeting
\* keyword of the resolved language, or begins with such a keyword followed by
\* a space, is answered with the greeting of that language, and keywords of
\* other languages do not make a greeting.
C11_GreetingKeyword ==
    \A w \in DOMAIN pc :
        Returned(w) /\ req[w][1] # <<>> =>
            /\ LeadsWithOneOf(req[w][1], GreetingWordsOf(lang[w]))
                  => result[w] = GreetingReply(lang[w])
            /\ LeadsWithOneOf(req[w][1], GreetingWordsNotOf(lang[w]))
                  /\ ~LeadsWithOneOf(req[w][1], GreetingWordsOf(lang[w]))
                  => result[w].type # "greeting"

\* an input in upper case that begins with a greeting keyword and a space,
\* and goes on to name a disease of the knowledge base, got the greeting
C11_Witness ==
    \E w \in DOMAIN pc :
        /\ Returned(w)
        /\ FAQ # <<>>
        /\ Lower(req[w][1]) # req[w][1]
        /\ \E g \in GreetingWordsOf(lang[w]) : StartsWith(Lower(req[w][1]), g \o <<" ">>)
        /\ Contains(W_dengue, req[w][1])
        /\ result[w] = GreetingReply(lang[w])

=============================================================================
